---- MODULE Spec2Model ----
(***************************************************************************)
(* A model of iss_tracker.py: the Flask service that fetches the ISS OEM   *)
(* feed, parses its state vectors, keeps the parsed list in Redis under    *)
(* the key "iss_data" and answers queries about it.                        *)
(*                                                                         *)
(* Python values are modelled as follows.                                  *)
(*   - a str that the code converts (float(), int()) is a sequence of      *)
(*     one-character strings, so that the conversion is computed;          *)
(*   - a float is a normalised decimal <<n, e>> standing for n / 10^e;     *)
(*   - None, and a list or str where None may stand instead, is a record   *)
(*     with a tag;                                                         *)
(*   - a raised exception is a record [exc |-> <class name>], a returned   *)
(*     value is a record [ret |-> <value>].                                *)
(***************************************************************************)
EXTENDS Integers, Sequences, FiniteSets, TLC

\* ------------------------------------------------------------------ bounds

\* Longest stateVector list of a feed document.
MaxVectors == 3
\* Number of request slots served concurrently.
MaxRequests == 2
\* Longest dataset handed to get_closest_data_point.
MaxDataset == 3
\* The clock of get_closest_data_point ranges over 0..MaxNow (minutes).
MaxNow == 4

\* None, and the tagged forms of the values that may be None instead.
None == [tag |-> "None"]
PyList(l) == [tag |-> "list", items |-> l]
PyStr(t) == [tag |-> "str", text |-> t]

\* bool(v): None, the empty list and the empty str are false.
truthy(v) ==
  CASE v.tag = "None" -> FALSE
    [] v.tag = "list" -> v.items # <<>>
    [] v.tag = "str"  -> v.text # <<>>
    [] OTHER          -> TRUE

\* ------------------------------------------------------- Python built-ins

Digits == <<"0", "1", "2", "3", "4", "5", "6", "7", "8", "9">>

IsDigit(c) == \E i \in 1..10 : Digits[i] = c

DigitVal(c) == (CHOOSE i \in 1..10 : Digits[i] = c) - 1

IsSpace(c) == c = " "

RECURSIVE lstrip(_)
lstrip(s) == IF s # <<>> /\ IsSpace(Head(s)) THEN lstrip(Tail(s)) ELSE s

RECURSIVE rstrip(_)
rstrip(s) ==
  IF s # <<>> /\ IsSpace(s[Len(s)]) THEN rstrip(SubSeq(s, 1, Len(s) - 1)) ELSE s

strip(s) == rstrip(lstrip(s))

AllDigits(s) == \A i \in 1..Len(s) : IsDigit(s[i])

RECURSIVE DigitsValue(_)
DigitsValue(s) ==
  IF s = <<>> THEN 0
  ELSE 10 * DigitsValue(SubSeq(s, 1, Len(s) - 1)) + DigitVal(s[Len(s)])

\* A decimal n / 10^e with no trailing fractional zero.
RECURSIVE Normalise(_, _)
Normalise(n, e) ==
  IF e > 0 /\ n % 10 = 0 THEN Normalise(n \div 10, e - 1) ELSE <<n, e>>

\* Position of the first "." of s, or 0.
DotAt(s) ==
  IF \E i \in 1..Len(s) : s[i] = "."
  THEN CHOOSE i \in 1..Len(s) : s[i] = "." /\ \A j \in 1..(i - 1) : s[j] # "."
  ELSE 0

\* float(x) of a str x: surrounding whitespace is stripped, then an optional
\* sign and a decimal literal with at least one digit; anything else raises
\* ValueError.  (The texts of this model hold no exponent, "inf" or "nan".)
float_parts(neg, ip, fp) ==
  IF AllDigits(ip) /\ AllDigits(fp) /\ Len(ip) + Len(fp) > 0
  THEN [ret |-> Normalise(IF neg THEN -DigitsValue(ip \o fp)
                           ELSE DigitsValue(ip \o fp), Len(fp))]
  ELSE [exc |-> "ValueError"]

float_split(neg, u, d) ==
  IF d = 0 THEN float_parts(neg, u, <<>>)
  ELSE float_parts(neg, SubSeq(u, 1, d - 1), SubSeq(u, d + 1, Len(u)))

float_stripped(s) ==
  IF s # <<>> /\ Head(s) \in {"-", "+"}
  THEN float_split(Head(s) = "-", Tail(s), DotAt(Tail(s)))
  ELSE float_split(FALSE, s, DotAt(s))

float_str(x) == float_stripped(strip(x))

\* int(x) of a str x: whitespace stripped, optional sign, digits only.
int_digits(neg, u) ==
  IF u # <<>> /\ AllDigits(u)
  THEN [ret |-> IF neg THEN -DigitsValue(u) ELSE DigitsValue(u)]
  ELSE [exc |-> "ValueError"]

int_stripped(s) ==
  IF s # <<>> /\ Head(s) \in {"-", "+"}
  THEN int_digits(Head(s) = "-", Tail(s))
  ELSE int_digits(FALSE, s)

int_str(x) == int_stripped(strip(x))

\* ------------------------------------------------------- the feed document

\* What xmltodict yields for one child element of a <stateVector>:
\*   Tagged(t)  {'@units': ..., '#text': t}   an element with a units attribute
\*   NoText     {'@units': ...}               such an element with no text
\*   Plain(t)   t                             an element without attributes
\*   Absent     the key is not in the mapping
Tagged(t) == [tag |-> "dict", text |-> t]
NoText == [tag |-> "dict_notext"]
Plain(t) == PyStr(t)
Absent == [tag |-> "absent"]

NumericKeys == <<"X", "Y", "Z", "X_DOT", "Y_DOT", "Z_DOT">>

\* An EPOCH text "YYYY-DDDTHH:MM:00.000Z" is the sequence of its fields
\* <<YYYY, DDD, HH, MM>>; the empty string is <<>>.
EmptyStr == <<>>

\* float(state_vector.get(k, {}).get("#text", 0))
numeric_field(state_vector, k) ==
  LET v == state_vector[k]
  IN CASE v.tag = "absent"      -> [ret |-> <<0, 0>>]
       [] v.tag = "dict_notext" -> [ret |-> <<0, 0>>]
       [] v.tag = "dict"        -> float_str(v.text)
       [] OTHER                 -> [exc |-> "AttributeError"]

\* The outcomes of the six conversions, in the order the dict display
\* evaluates them.
numeric_outcomes(state_vector) ==
  [i \in 1..6 |-> numeric_field(state_vector, NumericKeys[i])]

\* Lines 86-94: the data_point of one state vector, or the first exception
\* its construction raises; o are the outcomes of the six conversions and
\* bad the indices of those that raised.
data_point_from(state_vector, o, bad) ==
     IF bad = {}
     THEN [ret |-> [EPOCH |-> IF state_vector.EPOCH.tag = "absent" THEN EmptyStr
                               ELSE state_vector.EPOCH.text,
                    X |-> o[1].ret, Y |-> o[2].ret, Z |-> o[3].ret,
                    X_DOT |-> o[4].ret, Y_DOT |-> o[5].ret, Z_DOT |-> o[6].ret]]
     ELSE o[CHOOSE i \in bad : \A j \in bad : i <= j]

failed_conversions(o) == {i \in 1..6 : "exc" \in DOMAIN o[i]}

data_point_with(state_vector, o) ==
  data_point_from(state_vector, o, failed_conversions(o))

data_point_of(state_vector) ==
  data_point_with(state_vector, numeric_outcomes(state_vector))

\* A slip for append_data_point: parsed_iss_data.insert(0, data_point).
insert_data_point_first(parsed_iss_data, data_point) ==
  <<data_point>> \o parsed_iss_data

\* parsed_iss_data.append(data_point)
append_data_point(parsed_iss_data, data_point) == Append(parsed_iss_data, data_point)

\* Lines 84-98: the loop over state_vectors.  A ValueError is logged and the
\* loop goes on; any other exception leaves the loop.
RECURSIVE convert_loop(_, _)
convert_step(rest, parsed_iss_data, d) ==
  CASE "ret" \in DOMAIN d ->
         convert_loop(rest, append_data_point(parsed_iss_data, d.ret))
    [] d.exc = "ValueError" -> convert_loop(rest, parsed_iss_data)
    [] OTHER -> d

convert_loop(state_vectors, parsed_iss_data) ==
  IF state_vectors = <<>> THEN [ret |-> parsed_iss_data]
  ELSE convert_step(Tail(state_vectors), parsed_iss_data,
                    data_point_of(Head(state_vectors)))

\* A document is what the chain of .get() calls of lines 70-77 finds:
\*   DocMissing    some level of ndm/oem/body/segment/data/stateVector is absent
\*   DocList(l)    stateVector is a list of mappings (several <stateVector>)
\*   DocSingle(v)  stateVector is one mapping (a single <stateVector>)
DocMissing == [tag |-> "missing"]
DocList(l) == PyList(l)
DocSingle(v) == [tag |-> "dict", item |-> v]

\* Lines 100-104: the list the loop built, or [] when it raised.
caught(r) == IF "ret" \in DOMAIN r THEN r.ret ELSE <<>>

\* Lines 56-104.
parse_iss_data(xml_data) ==
  CASE xml_data.tag = "missing" -> <<>>
    [] xml_data.tag = "list" ->
         IF xml_data.items = <<>> THEN <<>>
         ELSE caught(convert_loop(xml_data.items, <<>>))
    \* iterating a mapping yields its keys, and a str has no .get
    [] OTHER -> <<>>

\* ------------------------------------------------------------ sample data

\* '#text' payloads that are decimal numerals, each with the float it denotes.
T_2674_7 == <<"2", "6", "7", "4", ".", "7">>
T_neg5_3 == <<"-", "5", ".", "3">>
T_pos1_50 == <<"+", "1", ".", "5", "0">>
T_sp2sp == <<" ", "2", " ">>

ExpectedValue ==
  (T_2674_7 :> <<26747, 1>>) @@ (T_neg5_3 :> <<-53, 1>>) @@
  (T_pos1_50 :> <<15, 1>>) @@ (T_sp2sp :> <<2, 0>>)

\* '#text' payloads that are no number.
T_km == <<"k", "m">>
T_1_2_3 == <<"1", ".", "2", ".", "3">>
T_dot == <<".">>

\* EPOCH texts 2025-058T11:53:00.000Z, ...T11:57..., ...T12:00... (the test
\* fixture's) and one that no feed of the model carries.
E_1153 == <<2025, 58, 11, 53>>
E_1157 == <<2025, 58, 11, 57>>
E_1200 == <<2025, 58, 12, 0>>
E_other == <<2025, 59, 0, 0>>

StateVector(epoch, x, y, z_dot) ==
  [EPOCH |-> epoch, X |-> x, Y |-> y, Z |-> Tagged(T_2674_7),
   X_DOT |-> Tagged(T_neg5_3), Y_DOT |-> Tagged(T_sp2sp), Z_DOT |-> z_dot]

SV_a == StateVector(Plain(E_1153), Tagged(T_2674_7), Tagged(T_sp2sp), Tagged(T_neg5_3))
SV_b == StateVector(Plain(E_1157), Tagged(T_pos1_50), Tagged(T_neg5_3), Tagged(T_2674_7))
SV_c == StateVector(Plain(E_1200), Tagged(T_neg5_3), Tagged(T_pos1_50), Tagged(T_sp2sp))
\* X is no number
SV_badX == StateVector(Plain(E_1157), Tagged(T_km), Tagged(T_sp2sp), Tagged(T_neg5_3))
\* Z_DOT is no number
SV_badZdot == StateVector(Plain(E_1200), Tagged(T_sp2sp), Tagged(T_sp2sp), Tagged(T_1_2_3))
\* Y is an element without attributes
SV_plainY == StateVector(Plain(E_1157), Tagged(T_sp2sp), Plain(T_sp2sp), Tagged(T_neg5_3))
\* X is no number and Y is an element without attributes
SV_badX_plainY == StateVector(Plain(E_1153), Tagged(T_dot), Plain(T_sp2sp), Tagged(T_neg5_3))
\* X is an element without attributes and Y is no number
SV_plainX_badY == StateVector(Plain(E_1200), Plain(T_sp2sp), Tagged(T_km), Tagged(T_neg5_3))
\* X is missing and Y has no text
SV_defaults == StateVector(Plain(E_1153), Absent, NoText, Tagged(T_neg5_3))
\* EPOCH is missing
SV_noEpoch == StateVector(Absent, Tagged(T_sp2sp), Tagged(T_sp2sp), Tagged(T_neg5_3))

SampleVectors ==
  {SV_a, SV_b, SV_c, SV_badX, SV_badZdot, SV_plainY, SV_badX_plainY,
   SV_plainX_badY, SV_defaults, SV_noEpoch}

RECURSIVE SeqsUpTo(_, _)
SeqsUpTo(S, n) ==
  IF n = 0 THEN {<<>>}
  ELSE LET shorter == SeqsUpTo(S, n - 1)
       IN shorter \cup {Append(l, x) : l \in shorter, x \in S}

\* The documents handed to parse_iss_data.
ParseInputs ==
  {DocMissing} \cup {DocList(l) : l \in SeqsUpTo(SampleVectors, MaxVectors)}
  \cup {DocSingle(v) : v \in {SV_a, SV_badX}}

\* ------------------------------------------------- get_closest_data_point

IsLeap(y) == (y % 4 = 0 /\ y % 100 # 0) \/ y % 400 = 0

\* Days from 2025-001 to y-001.
RECURSIVE DaysBefore(_)
DaysBefore(y) ==
  IF y <= 2025 THEN 0
  ELSE DaysBefore(y - 1) + (IF IsLeap(y - 1) THEN 366 ELSE 365)

\* parser.isoparse(text) of an ordinal-date text, as minutes since
\* 2025-001T00:00Z; the empty string raises ValueError.
isoparse(text) ==
  IF text = EmptyStr THEN [exc |-> "ValueError"]
  ELSE [ret |-> (DaysBefore(text[1]) + text[2] - 1) * 1440 + text[3] * 60 + text[4]]

Abs(d) == IF d < 0 THEN -d ELSE d

\* The sort key of line 157: abs(now - parser.isoparse(x["EPOCH"])).
closest_key(x, t) == Abs(t - isoparse(x.EPOCH).ret)

\* A slip for insert_sorted: an unstable sort, which puts x before the
\* elements of equal key.
RECURSIVE insert_before_equal(_, _, _)
insert_before_equal(x, l, t) ==
  IF l = <<>> THEN <<x>>
  ELSE IF closest_key(Head(l), t) < closest_key(x, t)
       THEN <<Head(l)>> \o insert_before_equal(x, Tail(l), t)
       ELSE <<x>> \o l

\* Where sorted() puts x among the already sorted prefix: after every
\* element whose key is not greater (the sort is stable).
RECURSIVE insert_sorted(_, _, _)
insert_sorted(x, l, t) ==
  IF l = <<>> THEN <<x>>
  ELSE IF closest_key(Head(l), t) <= closest_key(x, t)
       THEN <<Head(l)>> \o insert_sorted(x, Tail(l), t)
       ELSE <<x>> \o l

RECURSIVE sorted_by_key(_, _)
sorted_by_key(l, t) ==
  IF l = <<>> THEN <<>>
  ELSE insert_sorted(l[Len(l)], sorted_by_key(SubSeq(l, 1, Len(l) - 1), t), t)

\* The list the name iss_data is bound to when line 157 is done: sorted()
\* builds a new list.
list_after_sorted(iss_data, sorted_data) == iss_data

\* Lines 143-159, with the clock reading as a parameter.  The outcome is the
\* returned data point or the exception raised, with the caller's list.
first_of(l, sorted_data) ==
  IF sorted_data = <<>>
  THEN [exc |-> "IndexError", iss_data |-> list_after_sorted(l, sorted_data)]
  ELSE [ret |-> sorted_data[1], iss_data |-> list_after_sorted(l, sorted_data)]

get_closest_data_point(l, t) ==
  IF \E i \in 1..Len(l) : "exc" \in DOMAIN isoparse(l[i].EPOCH)
  THEN [exc |-> "ValueError", iss_data |-> l]
  ELSE first_of(l, sorted_by_key(l, t))

\* The data points of the model: the parse of each sample state vector that
\* parses.
DP(state_vector) == data_point_of(state_vector).ret

SamplePoints == {DP(SV_a), DP(SV_b), DP(SV_c), DP(SV_defaults), DP(SV_noEpoch)}

ClockOrigin == isoparse(<<2025, 58, 11, 52>>).ret

Clock == {ClockOrigin + k : k \in 0..MaxNow}

\* ------------------------------------------------------------------- json

RECURSIVE NatDigits(_)
NatDigits(n) ==
  IF n < 10 THEN <<Digits[n + 1]>>
  ELSE Append(NatDigits(n \div 10), Digits[(n % 10) + 1])

RECURSIVE ZeroPad(_, _)
ZeroPad(s, w) == IF Len(s) >= w THEN s ELSE ZeroPad(<<"0">> \o s, w)

\* float.__repr__ of the decimal <<n, e>>, which json.dumps writes.
repr_digits(n, e, ds) ==
  (IF n < 0 THEN <<"-">> ELSE <<>>) \o SubSeq(ds, 1, Len(ds) - e) \o <<".">>
  \o (IF e = 0 THEN <<"0">> ELSE SubSeq(ds, Len(ds) - e + 1, Len(ds)))

float_repr(f) == repr_digits(f[1], f[2], ZeroPad(NatDigits(Abs(f[1])), f[2] + 1))

\* JSON text is a sequence of tokens: "[", one object per data point with
\* its numbers written out, "]".
json_object(d) ==
  [t |-> "{}", EPOCH |-> d.EPOCH,
   X |-> float_repr(d.X), Y |-> float_repr(d.Y), Z |-> float_repr(d.Z),
   X_DOT |-> float_repr(d.X_DOT), Y_DOT |-> float_repr(d.Y_DOT),
   Z_DOT |-> float_repr(d.Z_DOT)]

\* json.dumps(parsed_iss_data)
json_dumps(l) ==
  PyStr(<<[t |-> "["]>> \o [i \in 1..Len(l) |-> json_object(l[i])] \o <<[t |-> "]"]>>)

json_value(o) ==
  [EPOCH |-> o.EPOCH,
   X |-> float_str(o.X).ret, Y |-> float_str(o.Y).ret, Z |-> float_str(o.Z).ret,
   X_DOT |-> float_str(o.X_DOT).ret, Y_DOT |-> float_str(o.Y_DOT).ret,
   Z_DOT |-> float_str(o.Z_DOT).ret]

\* json.loads(data) of a text json_dumps wrote.
json_loads(data) ==
  LET body == SubSeq(data.text, 2, Len(data.text) - 1)
  IN PyList([i \in 1..Len(body) |-> json_value(body[i])])

\* ------------------------------------------------------------ the service

VARIABLES
  cache,        \* the value Redis holds under "iss_data": None or a str
  req,          \* the requests being served, one record per slot
  xml_data,     \* the argument of a direct call of parse_iss_data
  parse_ret,    \* its return value, None before the call
  iss_data,     \* the argument of a direct call of get_closest_data_point
  now,          \* what datetime.now(timezone.utc) reads in that call
  closest_ret   \* its outcome, None before the call

vars == <<cache, req, xml_data, parse_ret, iss_data, now, closest_ret>>

\* The names bound in the module's namespace once iss_tracker.py is loaded:
\* its imports, its assignments and its function definitions.
ModuleGlobals ==
  {"logging", "datetime", "timezone", "Any", "Dict", "List", "Tuple",
   "Optional", "json", "requests", "xmltodict", "redis", "math", "Nominatim",
   "parser", "Flask", "request", "jsonify", "ISS_DATA_URL", "app", "r",
   "setup_logging", "fetch_iss_data", "parse_iss_data", "get_iss_data_cached",
   "get_time_range", "get_closest_data_point", "cal_average_speed",
   "cal_instantaneous_speed", "get_epochs", "get_modified_epochs_list",
   "get_state_vectors_for_epoch", "get_instantaneous_speed_for_epoch",
   "get_epoch_location", "get_nearest_epoch"}

\* Evaluating a global name inside a function body.
load_global(name) ==
  IF name \in ModuleGlobals THEN [ret |-> name] ELSE [exc |-> "NameError"]

\* logger.info(...) of lines 47, 118 and 120: the name is looked up first.
logger_info == IF "exc" \in DOMAIN load_global("logger")
               THEN [exc |-> "NameError"] ELSE [ret |-> None]

\* The routes in the order the decorators register them (lines 201-302);
\* the URL map hands a request to the first rule that matches.
url_map ==
  <<[rule |-> "/epochs", endpoint |-> "get_epochs"],
    [rule |-> "/epochs", endpoint |-> "get_modified_epochs_list"],
    [rule |-> "/epochs/<epoch>", endpoint |-> "get_state_vectors_for_epoch"],
    [rule |-> "/epochs/<epoch>/speed", endpoint |-> "get_instantaneous_speed_for_epoch"],
    [rule |-> "/epochs/<epoch>/location", endpoint |-> "get_epoch_location"],
    [rule |-> "/now", endpoint |-> "get_nearest_epoch"]>>

dispatch(rule) ==
  url_map[CHOOSE i \in 1..Len(url_map) :
            /\ url_map[i].rule = rule
            /\ \A j \in 1..(i - 1) : url_map[j].rule # rule].endpoint

\* Responses.  A view that raises, or returns None, is answered by Flask
\* with its own 500 page.
Response(status, kind, v) == [status |-> status, kind |-> kind, v |-> v]
Unhandled == Response(500, "flask_error", "Internal Server Error")
InternalError == Response(500, "error", "Internal server error")
FetchFailed == Response(500, "error", "Failed to fetch ISS data")
InvalidLimitOffset == Response(400, "error", "Invalid value for limit or offset")
NoDataForEpoch == Response(404, "error", "No data found for the specified epoch")
EpochNotFound == Response(404, "error", "Epoch not found")
NoResponse == Response(0, "none", "")

\* l[a:b] for a, b >= 0
py_slice(l, a, b) ==
  LET lo == IF a > Len(l) THEN Len(l) ELSE a
      hi == IF b > Len(l) THEN Len(l) ELSE b
  IN SubSeq(l, lo + 1, hi)

\* [data for data in l if data["EPOCH"] == epoch]
epoch_filter(l, epoch) == SelectSeq(l, LAMBDA data : data.EPOCH = epoch)

\* Decimal arithmetic for the speed.
RECURSIVE Pow10(_)
Pow10(k) == IF k = 0 THEN 1 ELSE 10 * Pow10(k - 1)
dec_sq(a) == <<a[1] * a[1], 2 * a[2]>>
dec_add(a, b) ==
  LET e == IF a[2] > b[2] THEN a[2] ELSE b[2]
  IN <<a[1] * Pow10(e - a[2]) + b[1] * Pow10(e - b[2]), e>>

\* Lines 184-198; the square root is left symbolic.
cal_instantaneous_speed(epoch_data) ==
  [sqrt |-> dec_add(dec_add(dec_sq(epoch_data.X_DOT), dec_sq(epoch_data.Y_DOT)),
                    dec_sq(epoch_data.Z_DOT))]

\* s.get(key): the value under key, or None.
dict_has(s, key) == key \in DOMAIN s

\* Each view, as a function of the outcome `out` of its call of
\* get_iss_data_cached (of fetch_iss_data for /now): [ret |-> v] or
\* [exc |-> class].

\* Lines 202-207.
get_epochs(out) ==
  IF "exc" \in DOMAIN out THEN Unhandled
  ELSE IF truthy(out.ret) THEN Response(200, "list", out.ret.items)
  ELSE FetchFailed

\* Lines 214-218: the query parameters, before the dataset is asked for.
limit_offset(args) ==
  LET l == IF args.limit = None THEN [ret |-> 5] ELSE int_str(args.limit.text)
      o == IF args.offset = None THEN [ret |-> 0] ELSE int_str(args.offset.text)
  IN IF "exc" \in DOMAIN l THEN l
     ELSE IF "exc" \in DOMAIN o THEN o
     ELSE IF l.ret < 0 \/ o.ret < 0 THEN [exc |-> "ValueError"]
     ELSE [ret |-> [limit |-> l.ret, offset |-> o.ret]]

\* Lines 212-231.
get_modified_epochs_list(args, out) ==
  IF "exc" \in DOMAIN limit_offset(args) THEN InvalidLimitOffset
  ELSE IF "exc" \in DOMAIN out THEN InternalError
  ELSE IF truthy(out.ret)
       THEN LET lo == limit_offset(args).ret
            IN Response(200, "list",
                        py_slice(out.ret.items, lo.offset, lo.offset + lo.limit))
       ELSE Unhandled

\* Lines 235-247.
get_state_vectors_for_epoch(epoch, out) ==
  IF "exc" \in DOMAIN out THEN InternalError
  ELSE IF truthy(out.ret) /\ epoch_filter(out.ret.items, epoch) # <<>>
       THEN Response(200, "list", epoch_filter(out.ret.items, epoch))
       ELSE NoDataForEpoch

\* Lines 251-264.
get_instantaneous_speed_for_epoch(epoch, out) ==
  IF "exc" \in DOMAIN out THEN InternalError
  ELSE IF truthy(out.ret)
       THEN IF epoch_filter(out.ret.items, epoch) # <<>>
            THEN Response(200, "speed",
                          cal_instantaneous_speed(epoch_filter(out.ret.items, epoch)[1]))
            ELSE NoDataForEpoch
       ELSE Unhandled

\* Lines 268-299.  The records carry the key "EPOCH", the view asks for
\* "epoch" and "position"; the geocoder's answer is left symbolic.
get_epoch_location(epoch, out) ==
  IF "exc" \in DOMAIN out THEN Unhandled
  ELSE IF out.ret = None THEN Unhandled
  ELSE LET data  == out.ret.items
           found == {i \in 1..Len(data) :
                       dict_has(data[i], "epoch") /\ data[i]["epoch"] = epoch}
       IN IF found = {} THEN EpochNotFound
          ELSE Response(200, "location",
                        [epoch |-> epoch, latitude |-> <<0, 0>>,
                         longitude |-> <<0, 0>>, altitude_km |-> <<-6371, 0>>,
                         geoposition |-> "Unknown"])

\* Lines 303-319, with the clock reading t.
nearest_response(c) ==
  IF "exc" \in DOMAIN c THEN InternalError
  ELSE Response(200, "point",
                [point |-> c.ret,
                 instantaneous_speed |-> cal_instantaneous_speed(c.ret)])

get_nearest_epoch(t, out) ==
  IF truthy(out.ret)
  THEN nearest_response(get_closest_data_point(out.ret.items, t))
  ELSE FetchFailed

\* The view a request is handed to answers it from the outcome of its data
\* call.
view(r, t, out) ==
  CASE r.endpoint = "get_epochs" -> get_epochs(out)
    [] r.endpoint = "get_modified_epochs_list" -> get_modified_epochs_list(r, out)
    [] r.endpoint = "get_state_vectors_for_epoch" ->
         get_state_vectors_for_epoch(r.epoch, out)
    [] r.endpoint = "get_instantaneous_speed_for_epoch" ->
         get_instantaneous_speed_for_epoch(r.epoch, out)
    [] r.endpoint = "get_epoch_location" -> get_epoch_location(r.epoch, out)
    [] OTHER -> get_nearest_epoch(t, out)

\* The requests clients send.
EpochRules == {"/epochs/<epoch>", "/epochs/<epoch>/speed", "/epochs/<epoch>/location"}

Url(rule, epoch, limit, offset) ==
  [rule |-> rule, epoch |-> epoch, limit |-> limit, offset |-> offset]

Urls ==
  {Url("/epochs", EmptyStr, None, None),
   Url("/epochs", EmptyStr, PyStr(<<"1">>), PyStr(<<"1">>)),
   Url("/epochs", EmptyStr, PyStr(<<"-", "1">>), None),
   Url("/now", EmptyStr, None, None)}
  \cup {Url(rule, e, None, None) : rule \in EpochRules, e \in {E_1153, E_other}}

\* What requests.get(ISS_DATA_URL) and xmltodict.parse can come to.
FeedDocuments ==
  {DocList(<<SV_a, SV_b>>), DocList(<<SV_c, SV_badX>>), DocMissing,
   DocSingle(SV_a), DocList(<<SV_a, SV_plainY>>)}

Upstream ==
  {[tag |-> "ConnectionError"], [tag |-> "not_ok"], [tag |-> "not_xml"]}
  \cup {[tag |-> "ok", doc |-> d] : d \in FeedDocuments}

Slots == 1..MaxRequests

\* A request: the rule and arguments of its URL, the view it was handed to,
\* where it stands (pc), whether r.get found a value (hit), the list its
\* fetch parsed, the outcome of its data call (out), its response, and how
\* many cache reads, upstream GETs, parse passes and cache writes it made.
NoOutcome == [pending |-> TRUE]

Idle ==
  [pc |-> "idle", rule |-> "", endpoint |-> "", epoch |-> EmptyStr,
   limit |-> None, offset |-> None, hit |-> FALSE, parsed |-> <<>>,
   out |-> NoOutcome, resp |-> NoResponse,
   lookups |-> 0, fetches |-> 0, parses |-> 0, writes |-> 0]

\* The call a view makes first: get_modified_epochs_list reads its query
\* parameters and may answer at once, /now calls fetch_iss_data, the others
\* call get_iss_data_cached.
first_pc(r) ==
  CASE r.endpoint = "get_nearest_epoch" -> "http"
    [] r.endpoint = "get_modified_epochs_list"
       /\ "exc" \in DOMAIN limit_offset(r) -> "done"
    [] OTHER -> "get"

\* A request arrives and is dispatched.
Receive(q) ==
  /\ req[q].pc = "idle"
  /\ \E u \in Urls :
       LET r == [Idle EXCEPT !.rule = u.rule, !.endpoint = dispatch(u.rule),
                             !.epoch = u.epoch, !.limit = u.limit,
                             !.offset = u.offset]
       IN req' = [req EXCEPT ![q] =
                    [r EXCEPT !.pc = first_pc(r),
                              !.resp = IF first_pc(r) = "done"
                                       THEN InvalidLimitOffset ELSE NoResponse]]
  /\ UNCHANGED <<cache, xml_data, parse_ret, iss_data, now, closest_ret>>

\* Lines 116-120 of get_iss_data_cached, after r.get returned data: the
\* outcome of the call, or "fetch" when it goes on to fetch_iss_data.
after_get(data) ==
  IF truthy(data)
  THEN IF "exc" \in DOMAIN logger_info THEN logger_info
       ELSE [ret |-> json_loads(data)]
  ELSE IF "exc" \in DOMAIN logger_info THEN logger_info
       ELSE [goto |-> "fetch"]

\* The data call is over with outcome `out`: the view answers.
answered(r, t, out) ==
  [r EXCEPT !.pc = "done", !.parsed = <<>>, !.out = out, !.resp = view(r, t, out)]

\* r.get("iss_data") and what follows it up to the next call out.  (The
\* views that come here do not read the clock.)
CacheGet(q) ==
  /\ req[q].pc = "get"
  /\ LET out == after_get(cache)
         r   == [req[q] EXCEPT !.lookups = @ + 1, !.hit = truthy(cache)]
     IN req' = [req EXCEPT ![q] =
                  IF "goto" \in DOMAIN out THEN [r EXCEPT !.pc = "http"]
                  ELSE answered(r, ClockOrigin, out)]
  /\ UNCHANGED <<cache, xml_data, parse_ret, iss_data, now, closest_ret>>

\* Lines 38-54 of fetch_iss_data up to the parse: what requests.get and
\* xmltodict.parse came to decides between the parsed list and None.
after_http(u) ==
  IF u.tag = "ok" THEN [parsed |-> parse_iss_data(u.doc)] ELSE [ret |-> None]

\* requests.get, xmltodict.parse and parse_iss_data.  (No view reads the
\* clock when the fetch returned None.)
HttpGet(q) ==
  /\ req[q].pc = "http"
  /\ \E u \in Upstream :
       LET out == after_http(u)
           r   == [req[q] EXCEPT !.fetches = @ + 1]
       IN req' = [req EXCEPT ![q] =
                    IF "parsed" \in DOMAIN out
                    THEN [r EXCEPT !.pc = "set", !.parsed = out.parsed,
                                   !.parses = @ + 1]
                    ELSE answered(r, ClockOrigin, out)]
  /\ UNCHANGED <<cache, xml_data, parse_ret, iss_data, now, closest_ret>>

\* A slip for redis_set: the new list is added to the stored one instead of
\* replacing it.
redis_append(old, parsed_iss_data) ==
  IF old = None THEN json_dumps(parsed_iss_data)
  ELSE json_dumps(json_loads(old).items \o parsed_iss_data)

\* r.set("iss_data", json.dumps(parsed_iss_data)): the new value of the key.
redis_set(old, parsed_iss_data) == json_dumps(parsed_iss_data)

\* The write and the rest of fetch_iss_data.

\* Lines 47-54: after the write, the log call; `except Exception` turns what
\* it raises into None.
after_set(parsed_iss_data) ==
  IF "exc" \in DOMAIN logger_info THEN [ret |-> None]
  ELSE [ret |-> PyList(parsed_iss_data)]

RedisSet(q) ==
  /\ req[q].pc = "set"
  /\ cache' = redis_set(cache, req[q].parsed)
  /\ \E t \in Clock :
       req' = [req EXCEPT ![q] =
                 answered([req[q] EXCEPT !.writes = @ + 1], t,
                          after_set(req[q].parsed))]
  /\ UNCHANGED <<xml_data, parse_ret, iss_data, now, closest_ret>>

\* The response is sent; the slot is free again.
Reply(q) ==
  /\ req[q].pc = "done"
  /\ req' = [req EXCEPT ![q] = Idle]
  /\ UNCHANGED <<cache, xml_data, parse_ret, iss_data, now, closest_ret>>

Init ==
  /\ cache = None
  /\ req = [q \in Slots |-> Idle]
  /\ xml_data = DocMissing
  /\ parse_ret = None
  /\ iss_data = <<>>
  /\ now = ClockOrigin
  /\ closest_ret = None

Next ==
  \E q \in Slots :
    \/ Receive(q)
    \/ CacheGet(q)
    \/ HttpGet(q)
    \/ RedisSet(q)
    \/ Reply(q)

Spec == Init /\ [][Next]_vars

\* ------------------------------------------- parse_iss_data, called directly

InitParse ==
  /\ xml_data \in ParseInputs
  /\ parse_ret = None
  /\ cache = None
  /\ req = [q \in Slots |-> Idle]
  /\ iss_data = <<>>
  /\ now = ClockOrigin
  /\ closest_ret = None

CallParse ==
  /\ parse_ret = None
  /\ parse_ret' = PyList(parse_iss_data(xml_data))
  /\ UNCHANGED <<cache, req, xml_data, iss_data, now, closest_ret>>

NextParse == CallParse

SpecParse == InitParse /\ [][NextParse]_vars

\* ---------------------------------- get_closest_data_point, called directly

InitClosest ==
  /\ iss_data \in SeqsUpTo(SamplePoints, MaxDataset)
  /\ now \in Clock
  /\ closest_ret = None
  /\ cache = None
  /\ req = [q \in Slots |-> Idle]
  /\ xml_data = DocMissing
  /\ parse_ret = None

CallClosest ==
  /\ closest_ret = None
  /\ LET c == get_closest_data_point(iss_data, now)
     IN /\ closest_ret' = [c EXCEPT !.iss_data = iss_data]
        /\ iss_data' = c.iss_data
  /\ UNCHANGED <<cache, req, xml_data, parse_ret, now>>

NextClosest == CallClosest

SpecClosest == InitClosest /\ [][NextClosest]_vars

\* ----------------------------------------------------------------- claims

\* A state vector is well formed when it has an EPOCH text and each of its
\* six numeric fields is a units/text element whose text is a numeral.
WellFormed(v) ==
  /\ v.EPOCH.tag = "str"
  /\ \A i \in 1..6 :
       /\ v[NumericKeys[i]].tag = "dict"
       /\ v[NumericKeys[i]].text \in DOMAIN ExpectedValue

\* The record the feed's state vector v stands for.
ExpectedPoint(v) ==
  [EPOCH |-> v.EPOCH.text,
   X |-> ExpectedValue[v.X.text], Y |-> ExpectedValue[v.Y.text],
   Z |-> ExpectedValue[v.Z.text], X_DOT |-> ExpectedValue[v.X_DOT.text],
   Y_DOT |-> ExpectedValue[v.Y_DOT.text], Z_DOT |-> ExpectedValue[v.Z_DOT.text]]

Parsed == parse_ret # None

Delta(d, t) == Abs(t - isoparse(d.EPOCH).ret)

Called == closest_ret # None

ExpectedRepr ==
  (T_2674_7 :> T_2674_7) @@ (T_neg5_3 :> T_neg5_3) @@
  (T_pos1_50 :> <<"1", ".", "5">>) @@ (T_sp2sp :> <<"2", ".", "0">>)

ExpectedObject(v) ==
  [t |-> "{}", EPOCH |-> v.EPOCH.text,
   X |-> ExpectedRepr[v.X.text], Y |-> ExpectedRepr[v.Y.text],
   Z |-> ExpectedRepr[v.Z.text], X_DOT |-> ExpectedRepr[v.X_DOT.text],
   Y_DOT |-> ExpectedRepr[v.Y_DOT.text], Z_DOT |-> ExpectedRepr[v.Z_DOT.text]]

\* The values one fetch of a feed of FeedDocuments leaves under "iss_data":
\* both state vectors of the first feed, the one state vector of the second
\* that parses, and no record for the other feeds.
SingleFetchValues ==
  {PyStr(<<[t |-> "["], ExpectedObject(SV_a), ExpectedObject(SV_b), [t |-> "]"]>>),
   PyStr(<<[t |-> "["], ExpectedObject(SV_c), [t |-> "]"]>>),
   PyStr(<<[t |-> "["], [t |-> "]"]>>)}

\* C9: under any interleaving of requests, each request makes at most one
\* cache lookup, one upstream fetch with one parse pass and one cache write,
\* and the value under "iss_data" is absent or the whole parse result of
\* one single fetch.
C9_OneFetchOneWriteWholeValue ==
  /\ \A q \in Slots :
       /\ req[q].lookups <= 1
       /\ req[q].fetches <= 1
       /\ req[q].parses <= req[q].fetches
       /\ req[q].writes <= req[q].parses
  /\ cache = None \/ cache \in SingleFetchValues

\* One request has written its fetch while another, which fetched a
\* different feed, is about to overwrite it.
C9_Witness ==
  \E q1, q2 \in Slots :
    /\ q1 # q2
    /\ req[q1].pc = "done" /\ req[q1].writes = 1
    /\ cache = json_dumps(<<DP(SV_a), DP(SV_b)>>)
    /\ req[q2].pc = "set" /\ req[q2].parsed = <<DP(SV_c)>>

\* Request q's call of get_iss_data_cached reads the cache in this step.
Lookup(q) == req[q].pc = "get" /\ req'[q].pc # "get"

\* Request q's call of fetch_iss_data writes the cache and returns in this
\* step.
Store(q) == req[q].pc = "set" /\ req'[q].pc = "done"

\* The dataset a stored value holds.
Dataset(data) == json_loads(data).items

\* C1: when nothing is stored under "iss_data", get_iss_data_cached goes on
\* to the fetcher and the parser, and when the fetch parsed at least one
\* state vector it stores the parsed list under "iss_data" and returns that
\* list.
C1_ColdPathFetchesStoresReturns ==
  [][\A q \in Slots :
       /\ (Lookup(q) /\ cache = None) => req'[q].pc = "http"
       /\ (Store(q) /\ req[q].lookups = 1 /\ req[q].parsed # <<>>)
          => /\ cache' = json_dumps(req[q].parsed)
             /\ req'[q].out = [ret |-> PyList(req[q].parsed)]]_vars

\* C2: when a dataset is stored under "iss_data", get_iss_data_cached
\* returns the deserialized stored dataset, fetches nothing and leaves the
\* stored value as it is.
C2_WarmPathReturnsStored ==
  [][\A q \in Slots :
       (Lookup(q) /\ cache # None)
       => /\ req'[q].pc = "done"
          /\ "ret" \in DOMAIN req'[q].out
          /\ req'[q].out.ret = json_loads(cache)
          /\ req'[q].fetches = 0
          /\ req'[q].writes = 0
          /\ cache' = cache]_vars

Min(a, b) == IF a < b THEN a ELSE b
Max(a, b) == IF a > b THEN a ELSE b

\* The slice [O, O+L) of ds, of length min(L, max(0, N-O)).
Page(ds, L, O) == [i \in 1..Min(L, Max(0, Len(ds) - O)) |-> ds[O + i]]

\* The integer a query parameter stands for (its default when not given).
Param(p, default) == IF p = None THEN default ELSE int_str(p.text).ret

\* Request q is answered in this step.
Answered(q) == req[q].pc # "done" /\ req'[q].pc = "done"

\* C4: GET /epochs with limit L >= 0 and offset O >= 0 (defaults 5 and 0) is
\* answered with the slice [O, O+L) of the dataset; with L < 0 or O < 0 it
\* is answered 400.
C4_EpochsPaginated ==
  [][\A q \in Slots :
       (Answered(q) /\ req'[q].rule = "/epochs")
       => IF Param(req'[q].limit, 5) < 0 \/ Param(req'[q].offset, 0) < 0
          THEN req'[q].resp.status = 400
          ELSE (Lookup(q) /\ cache # None)
               => /\ req'[q].resp.status = 200
                  /\ req'[q].resp.kind = "list"
                  /\ req'[q].resp.v = Page(Dataset(cache), Param(req'[q].limit, 5),
                                           Param(req'[q].offset, 0))]_vars

HasEpoch(ds, epoch) == \E i \in 1..Len(ds) : ds[i].EPOCH = epoch

\* C5: GET /epochs/{epoch}/location is answered successfully, with a body
\* carrying that epoch and the location, when a record of the dataset has
\* that EPOCH; it is answered 404 only when none has.
C5_LocationOfKnownEpoch ==
  [][\A q \in Slots :
       (Answered(q) /\ Lookup(q) /\ cache # None
        /\ req'[q].rule = "/epochs/<epoch>/location")
       => IF HasEpoch(Dataset(cache), req'[q].epoch)
          THEN /\ req'[q].resp.status = 200
               /\ req'[q].resp.kind = "location"
               /\ req'[q].resp.v.epoch = req'[q].epoch
          ELSE req'[q].resp.status = 404]_vars

\* A state vector is malformed, in the sense of C7, when all its numeric
\* fields are elements with text and one of them has a text that is no
\* number or is not a units/text element.
Malformed(v) ==
  /\ v.EPOCH.tag = "str"
  /\ \A i \in 1..6 : v[NumericKeys[i]].tag \in {"dict", "str"}
  /\ \E i \in 1..6 :
       \/ v[NumericKeys[i]].tag = "str"
       \/ "exc" \in DOMAIN float_str(v[NumericKeys[i]].text)

\* The records of the well-formed entries of l, in order.
RECURSIVE WellFormedPoints(_)
WellFormedPoints(l) ==
  IF l = <<>> THEN <<>>
  ELSE (IF WellFormed(Head(l)) THEN <<ExpectedPoint(Head(l))>> ELSE <<>>)
       \o WellFormedPoints(Tail(l))

\* C7: of a list of state vectors some of which are malformed,
\* parse_iss_data drops the malformed ones only and returns every
\* well-formed one, in feed order.
C7_MalformedEntriesOnlyAreDropped ==
  (Parsed /\ xml_data.tag = "list"
   /\ \A i \in 1..Len(xml_data.items) :
        WellFormed(xml_data.items[i]) \/ Malformed(xml_data.items[i]))
  => parse_ret.items = WellFormedPoints(xml_data.items)

\* C8: GET /epochs/{epoch}/speed is answered 404 whenever the dataset, the
\* empty one included, has no record with the requested EPOCH.
C8_SpeedOfUnknownEpochIs404 ==
  [][\A q \in Slots :
       (Answered(q) /\ Lookup(q) /\ cache # None
        /\ req'[q].rule = "/epochs/<epoch>/speed"
        /\ ~HasEpoch(Dataset(cache), req'[q].epoch))
       => req'[q].resp.status = 404]_vars

\* C10: the value stored under "iss_data" is never an empty dataset.
C10_CachedDatasetNeverEmpty ==
  cache = None \/ Dataset(cache) # <<>>

====
